---------------------------- MODULE Spec2Model ----------------------------
(***************************************************************************)
(* Model of the RRD connector (pkg/connector/rrd.go).                      *)
(*                                                                         *)
(*   Spec         the query path: GetPlots -> rrdGetData, split at its two *)
(*                engine calls (compile, export, graph information).       *)
(*   SpecRefresh  the discovery path: Refresh running as a goroutine that  *)
(*                streams (source, metric) pairs to its caller.            *)
(*                                                                         *)
(* Go pointers that may be nil are sequences of length 0 or 1.  Floating   *)
(* point inputs (scales, percentiles) are integers counted in hundredths;  *)
(* engine values are exact fractions, the unknown value being 0/0.         *)
(* Series and group names contain no comma.                                *)
(***************************************************************************)
EXTENDS Integers, Sequences, FiniteSets, Bags, TLC

\* ------------------------------------------------------------------ bounds
MaxSeries == 3
MaxRows == 1
MaxRuns == 2
MaxLiveTree == 2

\* ------------------------------------------------------- program constants
OperGroupTypeNone == 0
OperGroupTypeAvg == 1
OperGroupTypeSum == 2

\* ================================================================ helpers
NilPtr == <<>>
Ptr(x) == <<x>>

RECURSIVE GCD(_, _)
GCD(a, b) == IF b = 0 THEN a ELSE GCD(b, a % b)

\* the engine's unknown sample (NaN)
UN == [n |-> 0, d |-> 0]
Rat(n, d) == LET g == GCD(n, d) IN [n |-> n \div g, d |-> d \div g]
Num(k) == [n |-> k, d |-> 1]

TwoDigits(k) == IF k < 10 THEN "0" \o ToString(k) ELSE ToString(k)

\* fmt.Sprintf("%f", x) for x = h/100
FormatF(h) == ToString(h \div 100) \o "." \o TwoDigits(h % 100) \o "0000"
\* fmt.Sprintf("%.2f", x)
Format2(h) == ToString(h \div 100) \o "." \o TwoDigits(h % 100)
\* fmt.Sprintf("%.0f", x) for integral x
Format0(h) == ToString(h \div 100)

MapPut(m, k, v) == (k :> v) @@ m
EmptyMap == [x \in {} |-> 0]


\* ============================================== the time-series engine
\* A program is a sequence of operations
\*   [op |-> "DEF",   name, file, ds, cf]      [op |-> "CDEF", name, rpn]
\*   [op |-> "VDEF",  name, rpn]               [op |-> "PRINT", name, label, key]
\*   [op |-> "XPORT", name, legend]
\* rpn being the comma-separated expression as its sequence of tokens.

Def(name, file, ds, cf) == [op |-> "DEF", name |-> name, file |-> file, ds |-> ds, cf |-> cf]
CDef(name, rpn) == [op |-> "CDEF", name |-> name, rpn |-> rpn]
VDef(name, rpn) == [op |-> "VDEF", name |-> name, rpn |-> rpn]
Gprint(name, label, key) == [op |-> "PRINT", name |-> name, label |-> label, key |-> key]
XportDef(name, legend) == [op |-> "XPORT", name |-> name, legend |-> legend]

\* The numbers whose text the engine is given in this model: the integers
\* written by strconv.Itoa and "0", and the "%f" form of the non-zero scale
\* and of the printed statistic.
FloatTexts == {150, 200}

\* the value of each text the engine reads as a number
NumberTable ==
    [tok \in { ToString(k) : k \in 0..(MaxSeries + 1) } \cup { FormatF(h) : h \in FloatTexts } |->
        IF \E k \in 0..(MaxSeries + 1) : ToString(k) = tok
        THEN Num(CHOOSE k \in 0..(MaxSeries + 1) : ToString(k) = tok)
        ELSE Rat(CHOOSE h \in FloatTexts : FormatF(h) = tok, 100)]

LiteralValue(tok) == IF tok \in DOMAIN NumberTable THEN Ptr(NumberTable[tok]) ELSE NilPtr

RAdd(a, b) == IF a = UN \/ b = UN THEN UN ELSE Rat(a.n * b.d + b.n * a.d, a.d * b.d)
RMul(a, b) == IF a = UN \/ b = UN THEN UN ELSE Rat(a.n * b.n, a.d * b.d)
RDiv(a, b) == IF a = UN \/ b = UN \/ b.n = 0 THEN UN ELSE Rat(a.n * b.d, a.d * b.n)

Pop(stack, k) == SubSeq(stack, 1, Len(stack) - k)

\* Evaluation of a reverse-Polish expression at row r of the columns defined
\* so far; <<>> when the expression is malformed, <<v>> otherwise.
RECURSIVE RPNEval(_, _, _, _, _)
RPNEval(tokens, i, stack, env, r) ==
    IF i > Len(tokens)
    THEN IF Len(stack) = 1 THEN Ptr(stack[1]) ELSE NilPtr
    ELSE LET t == tokens[i]
             n == Len(stack)
         IN  CASE t \in DOMAIN env ->
                    RPNEval(tokens, i + 1, Append(stack, env[t][r]), env, r)
               [] t \notin DOMAIN env /\ t \in {"+", "*", "/"} ->
                    IF n < 2 THEN NilPtr
                    ELSE LET a == stack[n - 1]
                             b == stack[n]
                             v == CASE t = "+" -> RAdd(a, b)
                                    [] t = "*" -> RMul(a, b)
                                    [] t = "/" -> RDiv(a, b)
                         IN  RPNEval(tokens, i + 1, Append(Pop(stack, 2), v), env, r)
               [] t \notin DOMAIN env /\ t = "UN" ->
                    IF n < 1 THEN NilPtr
                    ELSE RPNEval(tokens, i + 1,
                                 Append(Pop(stack, 1), IF stack[n] = UN THEN Num(1) ELSE Num(0)),
                                 env, r)
               [] t \notin DOMAIN env /\ t = "IF" ->
                    IF n < 3 THEN NilPtr
                    ELSE LET c == stack[n - 2]
                             v == IF c = UN \/ c.n = 0 THEN stack[n] ELSE stack[n - 1]
                         IN  RPNEval(tokens, i + 1, Append(Pop(stack, 3), v), env, r)
               [] OTHER ->
                    IF LiteralValue(t) = NilPtr THEN NilPtr
                    ELSE RPNEval(tokens, i + 1, Append(stack, LiteralValue(t)[1]), env, r)

\* Execution of the DEF / CDEF / XPORT operations of a program over the
\* archives: ok = FALSE when the engine rejects the program.
RECURSIVE RunProgram(_, _, _, _)
RunProgram(prog, i, st, archives) ==
    IF i > Len(prog) \/ ~st.ok THEN st
    ELSE LET o == prog[i]
             rows == st.rows
         IN  CASE o.op = "DEF" ->
                    IF o.file \in DOMAIN archives /\ o.ds \in DOMAIN archives[o.file]
                    THEN RunProgram(prog, i + 1,
                             [st EXCEPT !.env = MapPut(st.env, o.name, archives[o.file][o.ds])],
                             archives)
                    ELSE [st EXCEPT !.ok = FALSE]
               [] o.op = "CDEF" ->
                    LET col == [r \in 1..rows |-> RPNEval(o.rpn, 1, <<>>, st.env, r)]
                    IN  IF \E r \in 1..rows : col[r] = NilPtr
                        THEN [st EXCEPT !.ok = FALSE]
                        ELSE RunProgram(prog, i + 1,
                                 [st EXCEPT !.env = MapPut(st.env, o.name, [r \in 1..rows |-> col[r][1]])],
                                 archives)
               [] o.op = "XPORT" ->
                    IF o.name \in DOMAIN st.env
                    THEN RunProgram(prog, i + 1,
                             [st EXCEPT !.legends = Append(st.legends, o.legend),
                                        !.columns = Append(st.columns, st.env[o.name])],
                             archives)
                    ELSE [st EXCEPT !.ok = FALSE]
               [] o.op = "VDEF" ->
                    IF o.rpn[1] \in DOMAIN st.env
                    THEN RunProgram(prog, i + 1, [st EXCEPT !.vdefs = st.vdefs \cup {o.name}], archives)
                    ELSE [st EXCEPT !.ok = FALSE]
               [] o.op = "PRINT" ->
                    IF o.name \in st.vdefs
                    THEN RunProgram(prog, i + 1,
                             [st EXCEPT !.prints = Append(st.prints, [label |-> o.label, key |-> o.key])],
                             archives)
                    ELSE [st EXCEPT !.ok = FALSE]

EngineStart(rows) ==
    [ok |-> TRUE, rows |-> rows, env |-> EmptyMap, legends |-> <<>>, columns |-> <<>>,
     vdefs |-> {}, prints |-> <<>>]

\* the engine's evaluation of a program over the archives
Execute(prog, archives, rows) == RunProgram(prog, 1, EngineStart(rows), archives)

\* rrd.Exporter.Xport: the table evaluated, or a failure (no column to
\* export, a malformed expression, a missing archive, the daemon unreachable).
EngineXport(st, reachable) ==
    IF reachable /\ st.ok /\ Len(st.legends) > 0
    THEN [ok |-> TRUE, Legends |-> st.legends, RowCnt |-> st.rows, columns |-> st.columns]
    ELSE [ok |-> FALSE, Legends |-> <<>>, RowCnt |-> 0, columns |-> <<>>]

\* rrd.Grapher.Graph: one printed line per PRINT, every value printed as text.
EngineGraph(st, reachable, text) ==
    IF reachable /\ st.ok
    THEN [ok |-> TRUE,
          Lines |-> [k \in 1..Len(st.prints) |->
                        <<st.prints[k].label, st.prints[k].key, text>>]]
    ELSE [ok |-> FALSE, Lines |-> <<>>]

\* ===================================================== the query compiler
\* connector.metrics[source][name]: the *rrdMetric, nil when either key is absent
Lookup(catalog, m) ==
    IF m.SourceName \in DOMAIN catalog /\ m.Name \in DOMAIN catalog[m.SourceName]
    THEN Ptr(catalog[m.SourceName][m.Name])
    ELSE NilPtr

\* the statistic key of a percentile
PercentileKey(p) == IF p % 100 # 0 THEN Format2(p) \o "th" ELSE Format0(p) \o "th"

RECURSIVE PercentileOps(_, _, _, _)
PercentileOps(serieName, itemName, percentiles, i) ==
    IF i > Len(percentiles) THEN <<>>
    ELSE LET idx == ToString(i - 1)
         IN  << CDef(serieName \o "-cdef" \o idx, <<serieName, "UN", "0", serieName, "IF">>),
                VDef(serieName \o "-vdef" \o idx,
                     <<serieName \o "-cdef" \o idx, FormatF(percentiles[i]), "PERCENT">>),
                Gprint(serieName \o "-vdef" \o idx, itemName, PercentileKey(percentiles[i])) >>
             \o PercentileOps(serieName, itemName, percentiles, i + 1)

rrdSetGraph(serieName, itemName, percentiles) ==
    << VDef(serieName \o "-min", <<serieName, "MINIMUM">>),
       Gprint(serieName \o "-min", itemName, "min"),
       VDef(serieName \o "-avg", <<serieName, "AVERAGE">>),
       Gprint(serieName \o "-avg", itemName, "avg"),
       VDef(serieName \o "-max", <<serieName, "MAXIMUM">>),
       Gprint(serieName \o "-max", itemName, "max"),
       VDef(serieName \o "-last", <<serieName, "LAST">>),
       Gprint(serieName \o "-last", itemName, "last") >>
    \o PercentileOps(serieName, itemName, percentiles, 1)

\* the type the query is compiled with, written back into the caller's query
CollapseType(query) ==
    IF query.Type # OperGroupTypeNone /\ Len(query.Series) = 1
    THEN OperGroupTypeNone
    ELSE query.Type

\* the two scaling definitions of a series in None mode
ScaleDefs(serieTemp, serieScale, queryScale) ==
    << IF serieScale # 0
       THEN CDef(serieTemp \o "-orig1", <<serieTemp \o "-orig0", FormatF(serieScale), "*">>)
       ELSE CDef(serieTemp \o "-orig1", <<serieTemp \o "-orig0">>),
       IF queryScale # 0
       THEN CDef(serieTemp, <<serieTemp \o "-orig1", FormatF(queryScale), "*">>)
       ELSE CDef(serieTemp, <<serieTemp \o "-orig1">>) >>

CompileStart ==
    [graph |-> <<>>, xport |-> <<>>, series |-> EmptyMap, stack |-> <<>>, count |-> 0,
     panic |-> FALSE]

\* case OperGroupTypeNone: the loop over query.Series from index i on
RECURSIVE NoneLoop(_, _, _, _, _, _)
NoneLoop(query, i, st, catalog, percentiles, infoOnly) ==
    IF i > Len(query.Series) \/ st.panic THEN st
    ELSE LET serie == query.Series[i]
         IN  IF serie.Metric = NilPtr
             THEN NoneLoop(query, i + 1, st, catalog, percentiles, infoOnly)
             ELSE LET serieTemp == "serie" \o ToString(st.count)
                      m == Lookup(catalog, serie.Metric[1])
                  IN  IF m = NilPtr
                      THEN [st EXCEPT !.count = st.count + 1, !.panic = TRUE]
                      ELSE LET defs == << Def(serieTemp \o "-orig0", m[1].FilePath, m[1].Dataset, "AVERAGE") >>
                                       \o ScaleDefs(serieTemp, serie.Scale, query.Scale)
                           IN  NoneLoop(query, i + 1,
                                   [st EXCEPT
                                      !.count = st.count + 1,
                                      !.graph = st.graph \o defs
                                                  \o rrdSetGraph(serieTemp, serie.Name, percentiles),
                                      !.xport = IF infoOnly THEN st.xport
                                                ELSE st.xport \o defs \o <<XportDef(serieTemp, serieTemp)>>,
                                      !.series = MapPut(st.series, serieTemp, serie.Name)],
                                   catalog, percentiles, infoOnly)

\* (variant: the operand is the raw sample)
ZeroUnknownRaw(serieTemp) ==
    <<serieTemp \o "-ori">>

\* the per-series operand of an aggregate: UN ? 0 : raw sample
ZeroUnknown(serieTemp) ==
    <<serieTemp \o "-ori", "UN", "0", serieTemp \o "-ori", "IF">>

\* reverse-Polish accumulation of the operands
StackPush(stack, serieTemp) ==
    IF Len(stack) = 0 THEN Append(stack, serieTemp) ELSE stack \o <<serieTemp, "+">>

\* the divisor appended in Avg mode
AvgDivisor(query) == ToString(Len(query.Series))

\* case OperGroupTypeAvg, OperGroupTypeSum: the loop over query.Series
RECURSIVE AggLoop(_, _, _, _, _, _)
AggLoop(query, i, st, catalog, serieName, infoOnly) ==
    IF i > Len(query.Series) \/ st.panic THEN st
    ELSE LET serie == query.Series[i]
         IN  IF serie.Metric = NilPtr
             THEN AggLoop(query, i + 1, st, catalog, serieName, infoOnly)
             ELSE LET serieTemp == serieName \o "-tmp" \o ToString(i - 1)
                      m == Lookup(catalog, serie.Metric[1])
                  IN  IF m = NilPtr
                      THEN [st EXCEPT !.panic = TRUE]
                      ELSE LET defs == << Def(serieTemp \o "-ori", m[1].FilePath, m[1].Dataset, "AVERAGE"),
                                          CDef(serieTemp, ZeroUnknown(serieTemp)) >>
                           IN  AggLoop(query, i + 1,
                                   [st EXCEPT
                                      !.graph = st.graph \o defs,
                                      !.xport = IF infoOnly THEN st.xport ELSE st.xport \o defs,
                                      !.stack = StackPush(st.stack, serieTemp)],
                                   catalog, serieName, infoOnly)

AggCompile(query, catalog, percentiles, infoOnly) ==
    LET serieName == "serie" \o ToString(0)
        lp == AggLoop(query, 1, [CompileStart EXCEPT !.count = 1], catalog, serieName, infoOnly)
        stack == IF query.Type = OperGroupTypeAvg
                 THEN lp.stack \o <<AvgDivisor(query), "/">>
                 ELSE lp.stack
        comb == << CDef(serieName \o "-orig", stack),
                   IF query.Scale # 0
                   THEN CDef(serieName, <<serieName \o "-orig", FormatF(query.Scale), "*">>)
                   ELSE CDef(serieName, <<serieName \o "-orig">>) >>
    IN  IF lp.panic THEN lp
        ELSE [lp EXCEPT
                !.stack = stack,
                !.graph = lp.graph \o comb \o rrdSetGraph(serieName, query.Name, percentiles),
                !.xport = IF infoOnly THEN lp.xport
                          ELSE lp.xport \o comb \o <<XportDef(serieName, serieName)>>,
                !.series = MapPut(lp.series, serieName, query.Name)]

\* rrdGetData up to the end of its switch: err is "" when it goes on
Compile(query, catalog, percentiles, infoOnly) ==
    IF Len(query.Series) = 0
    THEN CompileStart @@ [type |-> query.Type, err |-> "group has no series"]
    ELSE LET type == CollapseType(query)
             q == [query EXCEPT !.Type = type]
         IN  CASE type = OperGroupTypeNone ->
                    NoneLoop(q, 1, CompileStart, catalog, percentiles, infoOnly)
                      @@ [type |-> type, err |-> ""]
               [] type \in {OperGroupTypeAvg, OperGroupTypeSum} ->
                    AggCompile(q, catalog, percentiles, infoOnly)
                      @@ [type |-> type, err |-> ""]
               [] OTHER ->
                    CompileStart @@ [type |-> type, err |-> "unknown operator type"]

\* ====================================================== the result merger
NewPlotResult == [Plots |-> <<>>, Info |-> EmptyMap]

\* the loop over data.Legends that fills result with the exported columns
RECURSIVE FillPlots(_, _, _, _)
FillPlots(data, series, i, result) ==
    IF i > Len(data.Legends) THEN result
    ELSE LET legend == data.Legends[i]
             label == IF legend \in DOMAIN series THEN series[legend] ELSE ""
         IN  FillPlots(data, series, i + 1,
                 MapPut(result, label,
                        [NewPlotResult EXCEPT !.Plots = [r \in 1..data.RowCnt |-> data.columns[i][r]]]))

\* strconv.ParseFloat, math.NaN() when the text is no number
ParseFloat(text) == IF LiteralValue(text) = NilPtr THEN UN ELSE LiteralValue(text)[1]

RECURSIVE rrdParseInfo(_, _, _)
rrdParseInfo(lines, i, data) ==
    IF i > Len(lines) THEN data
    ELSE LET chunks == lines[i]
             chunkFloat == ParseFloat(chunks[3])
             cur == IF chunks[1] \in DOMAIN data THEN data[chunks[1]] ELSE NewPlotResult
         IN  rrdParseInfo(lines, i + 1,
                 MapPut(data, chunks[1], [cur EXCEPT !.Info = MapPut(cur.Info, chunks[2], chunkFloat)]))


\* ================================================================== state
VARIABLES
    \* --- RRDConnector
    pattern,      \* connector.Pattern, as the names of its capture groups
    metrics,      \* connector.metrics: source -> (metric full name -> rrdMetric)
    \* --- one call of GetPlots
    pcQ,          \* position in rrdGetData
    call,         \* the arguments and the archives the engine reads
    query,        \* the caller's *GroupQuery
    graph,        \* the program held by the Grapher
    xport,        \* the program held by the Exporter
    series,       \* temporary identifier -> label
    result,       \* the local map label -> PlotResult
    data,         \* the XportResult declared before "if !infoOnly"
    xdata,        \* the XportResult declared inside "if !infoOnly"
    heap,         \* the value buffers the engine has allocated and not freed
    ret,          \* what rrdGetData returned
    \* --- one run of Refresh and its caller
    pc,           \* position in Refresh
    tree,         \* the entries under connector.Path
    visited,      \* the entries walkFunc has been called for
    cur,          \* sourceName, metricName, filePath of the file being visited
    pending,      \* the datasets of the file still to be ranged over
    dsName,       \* the dataset sent and not yet inserted
    sent,         \* the pairs the caller has received from outputChan, as a bag
    errs,         \* received from errChan by the caller, in order
    outCloses,    \* number of close(*connector.outputChan) executed
    errCloses,    \* number of close(errChan) executed
    lateSend,     \* a send was executed on a closed channel
    runs,         \* number of Refresh runs started
    runStart,     \* connector.metrics as it was when the run started
    walked,       \* the walk of the run visited the whole tree
    consumerDone  \* the caller's read loop has seen outputChan closed

queryVars == <<pcQ, call, query, graph, xport, series, result, data, xdata, heap, ret>>
refreshVars == <<pc, tree, visited, cur, pending, dsName, sent, errs, outCloses, errCloses,
                 lateSend, runs, runStart, walked, consumerDone>>
vars == <<pattern, metrics, queryVars, refreshVars>>

\* ================================================================= inputs
rrdMetric(ds, path) == [Dataset |-> ds, FilePath |-> path]
MetricRef(source, name) == [SourceName |-> source, Name |-> name]

RootPath == "/rrd"

\* the catalog of a connector after a run over a/m1.rrd and b/if.rrd
QueryCatalog ==
    [s \in {"a", "b"} |->
        IF s = "a"
        THEN [m \in {"m1/value"} |-> rrdMetric("value", RootPath \o "/a/m1.rrd")]
        ELSE [m \in {"if/rx", "if/tx"} |->
                 rrdMetric(IF m = "if/rx" THEN "rx" ELSE "tx", RootPath \o "/b/if.rrd")]]

\* the series a query is made of: two that resolve, one without a metric,
\* one whose metric is not in the catalog
SeriesUniverse ==
    { [Name |-> "cpu",  Metric |-> Ptr(MetricRef("a", "m1/value")), Scale |-> 0],
      [Name |-> "rx",   Metric |-> Ptr(MetricRef("b", "if/rx")), Scale |-> 200],
      [Name |-> "disk", Metric |-> NilPtr, Scale |-> 0],
      [Name |-> "gone", Metric |-> Ptr(MetricRef("a", "m9/value")), Scale |-> 0] }

SeriesLists == UNION { [1..n -> SeriesUniverse] : n \in 0..MaxSeries }

\* one value outside the enumeration
TypeValues == {OperGroupTypeNone, OperGroupTypeAvg, OperGroupTypeSum, OperGroupTypeSum + 1}

Queries ==
    { [Name |-> "group", Series |-> ss, Type |-> t, Scale |-> sc] :
        ss \in SeriesLists, t \in TypeValues, sc \in {0, 200} }

\* the samples of the two archives over the rows of the window: each one
\* unknown or the value of its archive
Archives(rows) ==
    { [f \in {RootPath \o "/a/m1.rrd", RootPath \o "/b/if.rrd"} |->
          IF f = RootPath \o "/a/m1.rrd"
          THEN [d \in {"value"} |-> c1]
          ELSE [d \in {"rx", "tx"} |-> c2]] :
        c1 \in [1..rows -> {UN, Num(1)}], c2 \in [1..rows -> {UN, Num(2)}] }

\* GetPlots(query, startTime, endTime, step, percentiles): the window has
\* MaxRows steps
Calls ==
    { [query |-> q, percentiles |-> <<5000, 9990>>, infoOnly |-> FALSE,
       rows |-> MaxRows, archives |-> a] :
          q \in Queries, a \in Archives(MaxRows) }

\* what the engine prints for a statistic
StatTexts == {"1.500000", "-nan"}

\* ============================================================== GetPlots
RefreshIdle ==
    /\ pc = "idle" /\ tree = {} /\ visited = {} /\ cur = NilPtr /\ pending = {}
    /\ dsName = NilPtr /\ sent = EmptyBag /\ errs = <<>> /\ outCloses = 0 /\ errCloses = 0
    /\ lateSend = FALSE /\ runs = 0 /\ runStart = EmptyMap /\ walked = FALSE
    /\ consumerDone = FALSE

QueryIdle ==
    /\ graph = <<>> /\ xport = <<>> /\ series = EmptyMap /\ result = EmptyMap
    /\ data = [values |-> NilPtr] /\ xdata = [values |-> NilPtr]
    /\ heap = {} /\ ret = NilPtr

\* GetPlots is entered with its arguments; the catalog is the one of an
\* earlier discovery
Init ==
    /\ pattern = <<"", "source", "metric">>
    /\ metrics = QueryCatalog
    /\ call \in Calls
    /\ query = call.query
    /\ pcQ = "call"
    /\ QueryIdle
    /\ RefreshIdle

Return(res, err) == [result |-> res, err |-> err]

\* XportResult.FreeValues
FreeValues(d, h) == IF d.values = NilPtr THEN h ELSE h \ {d.values[1]}

\* rrdGetData from its entry to the end of the switch on query.Type
CompileQuery ==
    /\ pcQ = "call"
    /\ LET c == Compile(query, metrics, call.percentiles, call.infoOnly)
       IN  /\ query' = [query EXCEPT !.Type = c.type]
           /\ graph' = c.graph
           /\ xport' = c.xport
           /\ series' = c.series
           /\ IF c.panic
              THEN pcQ' = "panicked" /\ ret' = ret
              ELSE IF c.err # ""
              THEN pcQ' = "returned" /\ ret' = Ptr(Return(NilPtr, c.err))
              ELSE pcQ' = "export" /\ ret' = ret
    /\ UNCHANGED <<pattern, metrics, call, result, data, xdata, heap, refreshVars>>

\* "Get plots": the export and the copy of its columns into result
Export ==
    /\ pcQ = "export"
    /\ IF call.infoOnly
       THEN pcQ' = "graph" /\ UNCHANGED <<xdata, heap, result, ret>>
       ELSE \E reachable \in BOOLEAN :
              LET x == EngineXport(Execute(xport, call.archives, call.rows), reachable)
              IN  IF ~x.ok
                  THEN /\ pcQ' = "returned"
                       /\ ret' = Ptr(Return(NilPtr, "xport failed"))
                       /\ UNCHANGED <<xdata, heap, result>>
                  ELSE /\ pcQ' = "graph"
                       /\ xdata' = [values |-> Ptr("xport-values"), Legends |-> x.Legends,
                                    RowCnt |-> x.RowCnt, columns |-> x.columns]
                       /\ heap' = heap \cup {"xport-values"}
                       /\ result' = FillPlots(x, series, 1, result)
                       /\ ret' = ret
    /\ UNCHANGED <<pattern, metrics, call, query, graph, xport, series, data, refreshVars>>

\* "Parse graph information", data.FreeValues() and the return
GraphInfo ==
    /\ pcQ = "graph"
    /\ LET run == Execute(graph, call.archives, call.rows)
       IN  \E reachable \in BOOLEAN, text \in StatTexts :
         LET g == EngineGraph(run, reachable, text)
         IN  IF ~g.ok
             THEN /\ ret' = Ptr(Return(NilPtr, "graph failed"))
                  /\ UNCHANGED <<result, heap>>
             ELSE /\ result' = rrdParseInfo(g.Lines, 1, result)
                  /\ heap' = FreeValues(data, heap)
                  /\ ret' = Ptr(Return(Ptr(result'), ""))
    /\ pcQ' = "returned"
    /\ UNCHANGED <<pattern, metrics, call, query, graph, xport, series, data, xdata, refreshVars>>

Next == CompileQuery \/ Export \/ GraphInfo

Spec == Init /\ [][Next]_vars


\* =============================================================== Refresh
\* An entry of the tree: its path relative to connector.Path, whether it is a
\* regular file, what the groups of a valid pattern capture in its path
\* (nil when the pattern does not match) and what rrd.Info finds in it (nil
\* when it fails, else the keys of "ds.index").
Entry(path, regular, caps, info) ==
    [path |-> path, regular |-> regular, caps |-> caps, info |-> info]
Caps(source, metric) == Ptr([source |-> source, metric |-> metric])

Entries ==
    { Entry("a", FALSE, NilPtr, NilPtr),
      Entry("a/m1.rrd", TRUE, Caps("a", "m1"), Ptr({"value"})),
      Entry("b/if.rrd", TRUE, Caps("b", "if"), Ptr({"rx", "tx"})),
      Entry("a/old/m1.rrd", TRUE, Caps("a", "m1"), Ptr({"value"})),
      Entry("a/README", TRUE, NilPtr, NilPtr),
      Entry("c/bad.rrd", TRUE, Caps("c", "bad"), NilPtr) }

\* connector.Pattern: nil when it is no regular expression, else the result
\* of SubexpNames (the first element stands for the whole match)
Patterns ==
    { Ptr(<<"", "source", "metric">>),
      Ptr(<<"", "metric", "source">>),
      Ptr(<<"", "source">>),
      Ptr(<<"", "metric">>),
      Ptr(<<"", "source", "metric", "host">>),
      NilPtr }

\* "Validate pattern keywords": the error sent, "" when there is none
RECURSIVE InvalidKeyword(_, _)
InvalidKeyword(names, i) ==
    IF i > Len(names) THEN ""
    ELSE IF names[i] = "" \/ names[i] = "source" \/ names[i] = "metric"
    THEN InvalidKeyword(names, i + 1)
    ELSE "invalid pattern keyword `" \o names[i] \o "'"

ValidateKeywords(names) ==
    LET groups == { names[i] : i \in 1..Len(names) }
    IN  IF InvalidKeyword(names, 1) # "" THEN InvalidKeyword(names, 1)
        ELSE IF "source" \notin groups THEN "missing pattern keyword `source'"
        ELSE IF "metric" \notin groups THEN "missing pattern keyword `metric'"
        ELSE ""

\* re.FindStringSubmatch on the relative path
FindStringSubmatch(names, e) ==
    IF e.caps = NilPtr THEN <<>>
    ELSE [i \in 1..Len(names) |-> IF names[i] = "" THEN e.path ELSE e.caps[1][names[i]]]

\* sourceName and metricName out of the submatch
SourceMetric(names, submatch) ==
    IF names[2] = "source"
    THEN [sourceName |-> submatch[2], metricName |-> submatch[3]]
    ELSE [sourceName |-> submatch[3], metricName |-> submatch[2]]

\* (variant: the dataset name is left out of the key)
MetricFullNameBare(metricName, ds) == metricName

MetricFullName(metricName, ds) == metricName \o "/" \o ds

InitRefresh ==
    /\ pattern \in Patterns
    /\ metrics = EmptyMap
    /\ tree \in SUBSET Entries
    /\ pcQ = "idle" /\ call = NilPtr /\ query = NilPtr
    /\ QueryIdle
    /\ pc = "idle" /\ visited = {} /\ cur = NilPtr /\ pending = {}
    /\ dsName = NilPtr /\ sent = EmptyBag /\ errs = <<>> /\ outCloses = 0 /\ errCloses = 0
    /\ lateSend = FALSE /\ runs = 0 /\ runStart = EmptyMap /\ walked = FALSE
    /\ consumerDone = FALSE

\* the caller makes the channels, starts Refresh as a goroutine and reads
StartRefresh ==
    /\ pc \in {"idle", "done"}
    /\ pc = "done" => consumerDone
    /\ runs < MaxRuns
    /\ runs' = runs + 1
    /\ pc' = "compile"
    /\ runStart' = metrics
    /\ visited' = {} /\ walked' = FALSE
    /\ sent' = EmptyBag /\ errs' = <<>>
    /\ outCloses' = 0 /\ errCloses' = 0 /\ lateSend' = FALSE
    /\ consumerDone' = FALSE
    /\ UNCHANGED <<pattern, metrics, queryVars, tree, cur, pending, dsName>>

\* between two runs an archive is removed from the tree
RemoveEntry ==
    /\ pc = "done"
    /\ runs < MaxRuns
    /\ \E e \in tree : tree' = tree \ {e}
    /\ UNCHANGED <<pattern, metrics, queryVars, pc, visited, cur, pending, dsName, sent, errs,
                   outCloses, errCloses, lateSend, runs, runStart, walked, consumerDone>>

\* regexp.MustCompile: panics on an invalid expression, the deferred closes run
CompilePattern ==
    /\ pc = "compile"
    /\ pc' = IF pattern = NilPtr THEN "return" ELSE "validate"
    /\ UNCHANGED <<pattern, metrics, queryVars, tree, visited, cur, pending, dsName, sent, errs,
                   outCloses, errCloses, lateSend, runs, runStart, walked, consumerDone>>

\* the keyword validation; an error is handed to the caller on errChan
ValidatePattern ==
    /\ pc = "validate"
    /\ LET err == ValidateKeywords(pattern[1])
       IN  IF err # ""
           THEN /\ errs' = Append(errs, err)
                /\ lateSend' = (lateSend \/ errCloses > 0)
                /\ pc' = "return"
           ELSE /\ pc' = "walk"
                /\ UNCHANGED <<errs, lateSend>>
    /\ UNCHANGED <<pattern, metrics, queryVars, tree, visited, cur, pending, dsName, sent,
                   outCloses, errCloses, runs, runStart, walked, consumerDone>>

\* walkFunc on one entry, up to the range over its datasets
VisitEntry ==
    /\ pc = "walk"
    /\ \E e \in tree \ visited :
         /\ visited' = visited \cup {e}
         /\ LET submatch == FindStringSubmatch(pattern[1], e)
                sm == SourceMetric(pattern[1], submatch)
            IN  IF ~e.regular \/ Len(submatch) = 0
                THEN UNCHANGED <<metrics, cur, pending, pc>>
                ELSE /\ metrics' = IF sm.sourceName \in DOMAIN metrics THEN metrics
                                   ELSE MapPut(metrics, sm.sourceName, EmptyMap)
                     /\ IF e.info = NilPtr \/ e.info = Ptr({})
                        THEN UNCHANGED <<cur, pending, pc>>
                        ELSE /\ cur' = Ptr(sm @@ [filePath |-> RootPath \o "/" \o e.path])
                             /\ pending' = e.info[1]
                             /\ pc' = "emit"
    /\ UNCHANGED <<pattern, queryVars, tree, dsName, sent, errs, outCloses, errCloses, lateSend,
                   runs, runStart, walked, consumerDone>>

\* *connector.outputChan <- [2]string{sourceName, metricFullName}
EmitMetric ==
    /\ pc = "emit"
    /\ \E ds \in pending :
         /\ dsName' = Ptr(ds)
         /\ sent' = sent (+) SetToBag({<<cur[1].sourceName, MetricFullName(cur[1].metricName, ds)>>})
    /\ lateSend' = (lateSend \/ outCloses > 0)
    /\ pc' = "insert"
    /\ UNCHANGED <<pattern, metrics, queryVars, tree, visited, cur, pending, errs, outCloses,
                   errCloses, runs, runStart, walked, consumerDone>>

\* connector.metrics[sourceName][metricFullName] = &rrdMetric{...}
InsertMetric ==
    /\ pc = "insert"
    /\ LET ds == dsName[1]
           c == cur[1]
       IN  /\ metrics' = [metrics EXCEPT ![c.sourceName] =
                             MapPut(@, MetricFullName(c.metricName, ds), rrdMetric(ds, c.filePath))]
           /\ pending' = pending \ {ds}
           /\ pc' = IF pending' = {} THEN "walk" ELSE "emit"
           /\ cur' = IF pending' = {} THEN NilPtr ELSE cur
    /\ dsName' = NilPtr
    /\ UNCHANGED <<pattern, queryVars, tree, visited, sent, errs, outCloses, errCloses, lateSend,
                   runs, runStart, walked, consumerDone>>

\* the walk fails on the root or on an entry not visited yet: walkFunc returns
\* the error, WalkDir returns it and it is handed to the caller on errChan
WalkError ==
    /\ pc = "walk"
    /\ visited = {} \/ tree \ visited # {}
    /\ errs' = Append(errs, "walk error")
    /\ lateSend' = (lateSend \/ errCloses > 0)
    /\ pc' = "return"
    /\ UNCHANGED <<pattern, metrics, queryVars, tree, visited, cur, pending, dsName, sent,
                   outCloses, errCloses, runs, runStart, walked, consumerDone>>

\* utils.WalkDir returns nil
WalkDone ==
    /\ pc = "walk"
    /\ visited = tree
    /\ walked' = TRUE
    /\ pc' = "return"
    /\ UNCHANGED <<pattern, metrics, queryVars, tree, visited, cur, pending, dsName, sent, errs,
                   outCloses, errCloses, lateSend, runs, runStart, consumerDone>>

\* defer close(errChan), the first deferred call to run
CloseErrChan ==
    /\ pc = "return"
    /\ errCloses' = errCloses + 1
    /\ pc' = "closeout"
    /\ UNCHANGED <<pattern, metrics, queryVars, tree, visited, cur, pending, dsName, sent, errs,
                   outCloses, lateSend, runs, runStart, walked, consumerDone>>

\* (variant: the output channel is left open when an error was sent)
CloseOutputChanUnlessError ==
    /\ pc = "closeout"
    /\ outCloses' = IF errs # <<>> THEN outCloses ELSE outCloses + 1
    /\ pc' = IF pattern = NilPtr THEN "crashed" ELSE "done"
    /\ UNCHANGED <<pattern, metrics, queryVars, tree, visited, cur, pending, dsName, sent, errs,
                   errCloses, lateSend, runs, runStart, walked, consumerDone>>

\* defer close(*connector.outputChan), then the return (or the panic goes on)
CloseOutputChan ==
    /\ pc = "closeout"
    /\ outCloses' = outCloses + 1
    /\ pc' = IF pattern = NilPtr THEN "crashed" ELSE "done"
    /\ UNCHANGED <<pattern, metrics, queryVars, tree, visited, cur, pending, dsName, sent, errs,
                   errCloses, lateSend, runs, runStart, walked, consumerDone>>

\* the caller's receive on the closed output channel ends its loop
ConsumerSeesClose ==
    /\ outCloses > 0
    /\ ~consumerDone
    /\ consumerDone' = TRUE
    /\ UNCHANGED <<pattern, metrics, queryVars, pc, tree, visited, cur, pending, dsName, sent,
                   errs, outCloses, errCloses, lateSend, runs, runStart, walked>>

RefreshStep ==
    \/ CompilePattern \/ ValidatePattern \/ VisitEntry \/ EmitMetric \/ InsertMetric
    \/ WalkError \/ WalkDone \/ CloseErrChan \/ CloseOutputChan

NextRefresh == StartRefresh \/ RemoveEntry \/ RefreshStep \/ ConsumerSeesClose

SpecRefresh == InitRefresh /\ [][NextRefresh]_vars


\* the runs over the trees of at most MaxLiveTree entries, the goroutine and
\* its caller being scheduled as long as they can take a step
InitLive == InitRefresh /\ Cardinality(tree) <= MaxLiveTree

FairSpecRefresh ==
    /\ InitLive
    /\ [][NextRefresh]_vars
    /\ WF_vars(RefreshStep)
    /\ WF_vars(ConsumerSeesClose)

\* ================================================================= claims
\* --- vocabulary of the claims
IsSet(serie) == serie.Metric # NilPtr
Resolves(serie) == IsSet(serie) /\ Lookup(metrics, serie.Metric[1]) # NilPtr
SetCount(q) == Cardinality({ i \in 1..Len(q.Series) : IsSet(q.Series[i]) })
ResolvableCount(q) == Cardinality({ i \in 1..Len(q.Series) : Resolves(q.Series[i]) })
Labels == { series[t] : t \in DOMAIN series }
Known == {OperGroupTypeNone, OperGroupTypeAvg, OperGroupTypeSum}

\* the expression of the definition called name in a program
ExprOf(prog, name) ==
    LET k == CHOOSE k \in 1..Len(prog) : prog[k].op = "CDEF" /\ prog[k].name = name
    IN  prog[k].rpn

\* the raw sample of a resolvable series at row r
RawSample(serie, r) ==
    LET m == Lookup(metrics, serie.Metric[1])[1]
    IN  call.archives[m.FilePath][m.Dataset][r]

RECURSIVE KnownSum(_, _, _)
KnownSum(ss, i, r) ==
    IF i > Len(ss) THEN 0
    ELSE (IF Resolves(ss[i]) /\ RawSample(ss[i], r) # UN THEN RawSample(ss[i], r).n ELSE 0)
         + KnownSum(ss, i + 1, r)

CatalogEntries(m) == UNION { { <<s, n>> : n \in DOMAIN m[s] } : s \in DOMAIN m }

ArchiveFiles(t) == { e \in t : e.regular /\ e.caps # NilPtr /\ e.info # NilPtr }

RECURSIVE DatasetCount(_)
DatasetCount(es) ==
    IF es = {} THEN 0
    ELSE LET e == CHOOSE e \in es : TRUE
         IN  Cardinality(e.info[1]) + DatasetCount(es \ {e})

ExpectedPairs(t) ==
    UNION { { <<e.caps[1].source, e.caps[1].metric \o "/" \o ds>> : ds \in e.info[1] } :
              e \in ArchiveFiles(t) }

\* C1 (as stated): a Sum or Avg query with exactly one resolvable series, however
\* many unresolved series it has, is compiled to the labels and definitions, and
\* exports the samples, of the same query with aggregationType None.
C1_CollapseOnResolvableCount ==
    (/\ pcQ \in {"export", "graph"}
     /\ call.query.Type \in {OperGroupTypeSum, OperGroupTypeAvg}
     /\ ResolvableCount(call.query) = 1)
    => LET asNone == [call.query EXCEPT !.Type = OperGroupTypeNone]
           n == Compile(asNone, metrics, call.percentiles, call.infoOnly)
       IN  /\ series = n.series
           /\ graph = n.graph
           /\ xport = n.xport
           /\ pcQ = "graph" =>
                result = FillPlots(EngineXport(Execute(n.xport, call.archives, call.rows), TRUE),
                                   n.series, 1, EmptyMap)

\* C2 (as stated): in Avg mode the combined expression ends with the division by
\* the number of series whose metric reference is set, m >= 2, not by the number
\* of configured series.
C2_AvgDividesByResolvable ==
    (/\ pcQ \in {"export", "graph"}
     /\ query.Type = OperGroupTypeAvg
     /\ SetCount(query) >= 2)
    => LET e == ExprOf(graph, "serie0-orig")
       IN  /\ Len(e) >= 2
           /\ SubSeq(e, Len(e) - 1, Len(e)) = <<ToString(SetCount(query)), "/">>

\* C3: for a Sum query over k >= 2 resolvable series the combined expression
\* is the first operand alone, then each further operand followed by "+"; it
\* evaluates at every row to the sum of the known samples of the contributing
\* series, zero standing for each unknown sample, and the merged sample of the
\* group is that sum (times the group scale), never unknown.
C3_SumOfKnownSamples ==
    (/\ pcQ = "graph"
     /\ query.Type = OperGroupTypeSum
     /\ ResolvableCount(query) >= 2)
    => /\ LET e == ExprOf(xport, "serie0-orig")
              k == ResolvableCount(query)
          IN  /\ Len(e) = 2 * k - 1
              /\ e[1] # "+"
              /\ \A j \in 1..(k - 1) : e[2 * j] # "+" /\ e[2 * j + 1] = "+"
       /\ \A r \in 1..call.rows :
         LET env == Execute(xport, call.archives, call.rows).env
             sum == Num(KnownSum(query.Series, 1, r))
         IN  /\ env["serie0-orig"][r] = sum
             /\ query.Name \in DOMAIN result
             /\ result[query.Name].Plots[r] # UN
             /\ result[query.Name].Plots[r] =
                   IF query.Scale = 0 THEN sum ELSE Rat(sum.n * query.Scale, 100)

\* one series unknown and one known at a row, among three configured
C3_Witness ==
    /\ pcQ = "graph"
    /\ query.Type = OperGroupTypeSum
    /\ Len(query.Series) = 3
    /\ ResolvableCount(query) = 2
    /\ query.Scale = 0
    /\ \E i, j \in 1..3 :
         /\ Resolves(query.Series[i]) /\ RawSample(query.Series[i], 1) = UN
         /\ Resolves(query.Series[j]) /\ RawSample(query.Series[j], 1) = Num(2)
    /\ result[query.Name].Plots[1] = Num(2)

\* C4 (as stated): a query whose aggregationType is outside {None, Sum, Avg} fails
\* with the unknown-type error and returns no result, for every non-empty series
\* list, a list of one series included.
C4_UnknownTypeAlwaysFails ==
    (/\ pcQ # "call"
     /\ call.query.Type \notin Known
     /\ Len(call.query.Series) >= 1)
    => /\ pcQ = "returned"
       /\ ret = Ptr(Return(NilPtr, "unknown operator type"))

C6_CatalogReplacedWholesale ==
    (pc = "done" /\ walked) => CatalogEntries(metrics) = BagToSet(sent)

\* C7 (as stated): whatever a concurrent GetPlots reads in connector.metrics
\* during a run is the complete catalog from before the run or the complete
\* catalog the run builds: the same sources and entries as one of the two.
C7_CatalogSwappedAtomically ==
    (pc \in {"walk", "emit", "insert", "return", "closeout"}
       /\ pattern # NilPtr /\ ValidateKeywords(pattern[1]) = "")
    => LET before == [sources |-> DOMAIN runStart, entries |-> CatalogEntries(runStart)]
           built == [sources |-> DOMAIN runStart \cup
                                   { e.caps[1].source : e \in { x \in tree : x.regular /\ x.caps # NilPtr } },
                     entries |-> CatalogEntries(runStart) \cup ExpectedPairs(tree)]
           seen == [sources |-> DOMAIN metrics, entries |-> CatalogEntries(metrics)]
       IN  seen = before \/ seen = built

\* C8 (as stated): when the export succeeded, the values of its table have been
\* freed by the time rrdGetData returns, whether the graph execution then
\* succeeded or failed.
C8_ExportValuesFreed ==
    (pcQ = "returned" /\ xdata.values # NilPtr) => xdata.values[1] \notin heap

\* C9 (as stated): a run started with an empty catalog that walks a tree of
\* archive files with D dataset names in all sends exactly D pairs and leaves
\* exactly D entries in the catalog.
C9_EmitsAndStoresD ==
    (pc = "done" /\ walked /\ runs = 1)
    => /\ BagCardinality(sent) = DatasetCount(ArchiveFiles(visited))
       /\ Cardinality(CatalogEntries(metrics)) = DatasetCount(ArchiveFiles(visited))

\* C9 (amended): such a run sends exactly D pairs, and the catalog holds one
\* entry for each distinct (source, metric/dataset) among them, which is D
\* entries when no two files give the same source, metric and dataset.
C9_EmitsDStoresDistinct ==
    (pc = "done" /\ walked /\ runs = 1)
    => /\ BagCardinality(sent) = DatasetCount(ArchiveFiles(visited))
       /\ CatalogEntries(metrics) = ExpectedPairs(visited)
       /\ BagToSet(sent) = ExpectedPairs(visited)
       /\ (Cardinality(ExpectedPairs(visited)) = DatasetCount(ArchiveFiles(visited))
             => Cardinality(CatalogEntries(metrics)) = DatasetCount(ArchiveFiles(visited)))

\* two archive files, three datasets, no two alike
C9_Witness ==
    /\ pc = "done" /\ walked /\ runs = 1
    /\ Cardinality(ArchiveFiles(visited)) = 2
    /\ DatasetCount(ArchiveFiles(visited)) = 3
    /\ BagCardinality(sent) = 3
    /\ Cardinality(CatalogEntries(metrics)) = 3

\* C10 (as stated): in None mode a series whose metric reference is nil or is
\* absent from the catalog is skipped: the compilation goes on without a crash,
\* allocates no identifier for it and its name is no label.
C10_UnresolvedSkipped ==
    (pcQ # "call" /\ call.query.Type = OperGroupTypeNone /\ Len(call.query.Series) >= 1)
    => /\ pcQ # "panicked"
       /\ Cardinality(DOMAIN series) = ResolvableCount(call.query)
       /\ \A i \in 1..Len(call.query.Series) :
            (/\ ~Resolves(call.query.Series[i])
             /\ \A j \in 1..Len(call.query.Series) :
                  Resolves(call.query.Series[j])
                    => call.query.Series[j].Name # call.query.Series[i].Name)
            => call.query.Series[i].Name \notin Labels

=============================================================================
